---- MODULE Spec2Model ----
(***************************************************************************)
(* A model of asyncpg's Record object (asyncpg/protocol/record/recordobj.c) *)
(* : the hash and comparison protocols, positional and named access, the   *)
(* value and item iterators, and the construction of records.              *)
(*                                                                         *)
(* Python objects are records [t |-> <type tag>, v |-> <integer>]:         *)
(*   "int"  the integer v            "str"  a string (v names it)          *)
(*   "list" an unhashable object     "obj"  an object whose __hash__ is    *)
(*   "NULL" the C null pointer              chosen to hit the -1 remapping *)
(* Machine words (Py_uhash_t) are little-endian sequences of 8-bit limbs,  *)
(* so that every operation is exact modulo 2^32 or 2^64.                   *)
(***************************************************************************)
EXTENDS Integers, Sequences, FiniteSets, TLC

VARIABLES
    \* record_hash: one call, stepped through its loop
    wide,        \* SIZEOF_PY_UHASH_T > 4 in this build
    h_item,      \* ob_item of the record being hashed
    h_pc,        \* "loop" | "tail" | "done"
    h_i,         \* loop index i
    h_acc,       \* acc
    h_ret,       \* [err |-> BOOLEAN, val |-> word] once returned
    h_self_hash, \* self_hash of the record being hashed, a word
    \* record_richcompare: one call, stepped through its branches
    c_v,         \* v: [type, item]
    c_w,         \* w: [type, item]
    c_op,        \* op: "Py_LT" | "Py_LE" | "Py_EQ" | "Py_NE" | "Py_GT" | "Py_GE"
    c_pc,        \* "entry" | "lens" | "scan" | "done"
    c_i,         \* loop index i
    c_ret,       \* "True" | "False" | "NotImplemented" | "TypeError" once returned
    \* the read operations on one populated record
    r_item,      \* ob_item
    r_keys,      \* desc->keys
    r_mapping,   \* desc->mapping
    r_call,      \* the last call made: [op, args, kw]
    r_ret,       \* what it returned: [val, err]
    \* the value iterator and the item iterator over one populated record
    i_item,      \* the record's ob_item
    i_keys,      \* the record's desc->keys
    i_held,      \* the caller still holds its reference to the record
    i_refcnt,    \* the record's reference count
    vi,          \* the ApgRecordIterObject: [st, it_index, it_seq]
    vi_out,      \* the values it has returned, in order
    vi_stops,    \* how many times it has signalled exhaustion
    ii,          \* the ApgRecordItemsObject: [st, it_index, it_key_iter, it_seq]
    ii_out,      \* the pairs it has returned, in order
    ii_stops,    \* how many times it has signalled exhaustion
    \* the life of records: construction, population, release
    heap,        \* block address -> the ApgRecordObject stored there
    fl,          \* thread -> its record_freelist_state (the TSS slot)
    descs,       \* the RecordDescriptor objects created so far
    desc_rc,     \* descriptor -> references held on it by records
    val_rc,      \* value -> references held on it by record slots
    state,       \* the record_module_state: [freelist_key, types]
    g_obs,       \* the outcome of the last call: "ok", "reused" (make_record
                 \* took its block from a free list), an exception, "unset"
                 \* (a NULL slot passed over) or "crash"
    g_thread,    \* the thread that ran the last call on the free lists
    \* record_repr: one call of repr() and the calls nested in it
    p_recs,      \* the records: id -> [type, size, keys, item]
    p_stack,     \* the activations of record_repr: [v, i, writer], innermost last
    p_active,    \* the objects Py_ReprEnter has registered for this thread
    p_ret        \* what the outermost call returned: [err, val]

hashVars == <<wide, h_item, h_pc, h_i, h_acc, h_ret, h_self_hash>>
cmpVars == <<c_v, c_w, c_op, c_pc, c_i, c_ret>>
readVars == <<r_item, r_keys, r_mapping, r_call, r_ret>>
iterVars == <<i_item, i_keys, i_held, i_refcnt, vi, vi_out, vi_stops, ii, ii_out, ii_stops>>
lifeVars == <<heap, fl, descs, desc_rc, val_rc, state, g_obs, g_thread>>
reprVars == <<p_recs, p_stack, p_active, p_ret>>
vars == <<hashVars, cmpVars, readVars, iterVars, lifeVars, reprVars>>

-----------------------------------------------------------------------------
(* Python values *)

PyInt(n) == [t |-> "int", v |-> n]
PyStr(n) == [t |-> "str", v |-> n]
AList == [t |-> "list", v |-> 0]
MagicObj == [t |-> "obj", v |-> 0]
NULL == [t |-> "NULL", v |-> 0]

-----------------------------------------------------------------------------
(* Exact arithmetic on machine words *)

\* one limb holds 8 bits
Limb == 2^8

RECURSIVE ByteXor(_, _)
ByteXor(x, y) ==
    IF x = 0 THEN y
    ELSE IF y = 0 THEN x
    ELSE (((x % 2) + (y % 2)) % 2) + 2 * ByteXor(x \div 2, y \div 2)

RECURSIVE ByteOr(_, _)
ByteOr(x, y) ==
    IF x = 0 THEN y
    ELSE IF y = 0 THEN x
    ELSE (IF (x % 2) + (y % 2) > 0 THEN 1 ELSE 0) + 2 * ByteOr(x \div 2, y \div 2)

WXor(a, b) == [j \in 1..Len(a) |-> ByteXor(a[j], b[j])]
WOr(a, b) == [j \in 1..Len(a) |-> ByteOr(a[j], b[j])]
WNot(a) == [j \in 1..Len(a) |-> (Limb - 1) - a[j]]
WZero(n) == [j \in 1..n |-> 0]
WOnes(n) == [j \in 1..n |-> Limb - 1]

RECURSIVE NatLimb(_, _)
NatLimb(x, j) == IF j = 1 THEN x % Limb ELSE NatLimb(x \div Limb, j - 1)

\* (Py_uhash_t)x for a small C integer x, two's complement on n limbs
WFromInt(x, n) ==
    IF x >= 0 THEN [j \in 1..n |-> NatLimb(x, j)]
    ELSE WNot([j \in 1..n |-> NatLimb((-x) - 1, j)])

RECURSIVE AddCarry(_, _, _)
AddCarry(a, b, j) ==
    IF j = 0 THEN 0 ELSE (a[j] + b[j] + AddCarry(a, b, j - 1)) \div Limb

WAdd(a, b) ==
    [j \in 1..Len(a) |-> (a[j] + b[j] + AddCarry(a, b, j - 1)) % Limb]

RECURSIVE MulColumn(_, _, _, _)
MulColumn(a, b, k, i) ==
    IF i = 0 THEN 0 ELSE a[i] * b[k + 1 - i] + MulColumn(a, b, k, i - 1)

RECURSIVE MulCarry(_, _, _)
MulCarry(a, b, k) ==
    IF k = 0 THEN 0
    ELSE (MulColumn(a, b, k, k) + MulCarry(a, b, k - 1)) \div Limb

WMul(a, b) ==
    [k \in 1..Len(a) |-> (MulColumn(a, b, k, k) + MulCarry(a, b, k - 1)) % Limb]

LimbAt(a, j) == IF j >= 1 /\ j <= Len(a) THEN a[j] ELSE 0

\* x << k and x >> k on words, k in bits
WShl(a, k) ==
    LET q == k \div 8
        r == k % 8
    IN [j \in 1..Len(a) |->
           ((LimbAt(a, j - q) * (2^r)) % Limb)
           + ((LimbAt(a, j - q - 1) * (2^r)) \div Limb)]

WShr(a, k) ==
    LET q == k \div 8
        r == k % 8
    IN [j \in 1..Len(a) |->
           (LimbAt(a, j + q) \div (2^r))
           + ((LimbAt(a, j + q + 1) * (2^(8 - r))) % Limb)]

-----------------------------------------------------------------------------
(* record_hash *)

WordLimbs(w) == IF w THEN 8 ELSE 4

\* 11400714785074694791ULL and 2654435761UL
HASH_XXPRIME_1(w) ==
    IF w THEN <<135, 202, 235, 133, 177, 121, 55, 158>>
    ELSE <<177, 121, 55, 158>>

\* 14029467366897019727ULL and 2246822519UL
HASH_XXPRIME_2(w) ==
    IF w THEN <<79, 235, 212, 39, 61, 174, 178, 194>>
    ELSE <<119, 202, 235, 133>>

\* 2870177450012600261ULL and 374761393UL
HASH_XXPRIME_5(w) ==
    IF w THEN <<197, 103, 86, 22, 47, 235, 212, 39>>
    ELSE <<177, 103, 86, 22>>

HashRotBits(w) == IF w THEN 31 ELSE 13

\* ((x << 31) | (x >> 33)) and ((x << 13) | (x >> 19))
HASH_XXROTATE(w, x) ==
    WOr(WShl(x, HashRotBits(w)), WShr(x, 8 * WordLimbs(w) - HashRotBits(w)))

LengthMangle == 3527539
RemapValue == 1546275796

\* PyObject_Hash(item) as (Py_uhash_t): -1 signals an error.  An int below
\* the hash modulus hashes to itself, except -1, which hashes to -2; a list
\* is unhashable; MagicObj's __hash__ returns the one value that drives a
\* one-element accumulator to (Py_uhash_t)-1.
MagicLane(w) ==
    IF w THEN <<170, 207, 189, 42, 237, 137, 21, 138>>
    ELSE <<155, 215, 206, 87>>

PyObject_Hash(w, item) ==
    CASE item.t = "int" ->
            WFromInt(IF item.v = -1 THEN -2 ELSE item.v, WordLimbs(w))
      [] item.t = "obj" -> MagicLane(w)
      [] OTHER -> WOnes(WordLimbs(w))

HashError == [err |-> TRUE, val |-> <<>>]
HashValue(x) == [err |-> FALSE, val |-> x]

\* The loop body: acc += lane * PRIME_2; acc = ROTATE(acc); acc *= PRIME_1
HashRound(w, acc, lane) ==
    WMul(HASH_XXROTATE(w, WAdd(acc, WMul(lane, HASH_XXPRIME_2(w)))),
         HASH_XXPRIME_1(w))

\* a slip in the tail: the length is added without the mangling constant
HashFinish_PlainLength(w, acc, len) ==
    LET n == WordLimbs(w)
        mixed == WAdd(acc, WFromInt(len, n))
    IN IF mixed = WOnes(n) THEN WFromInt(RemapValue, n) ELSE mixed

\* acc += (Py_uhash_t)len ^ (PRIME_5 ^ 3527539UL); then the -1 remapping
HashFinish(w, acc, len) ==
    LET n == WordLimbs(w)
        mixed == WAdd(acc, WXor(WFromInt(len, n),
                                WXor(HASH_XXPRIME_5(w), WFromInt(LengthMangle, n))))
    IN IF mixed = WOnes(n) THEN WFromInt(RemapValue, n) ELSE mixed

MaxHashLen == 3

HashValues == {PyInt(-1), PyInt(0), PyInt(1), PyInt(2), PyInt(3), AList, MagicObj}

RECURSIVE SeqsUpTo(_, _)
SeqsUpTo(S, n) ==
    IF n = 0 THEN {<<>>}
    ELSE LET shorter == SeqsUpTo(S, n - 1)
         IN shorter \cup {Append(s, x) : s \in {q \in shorter : Len(q) = n - 1}, x \in S}

\* one iteration of the for loop
HashLoop ==
    /\ h_pc = "loop"
    /\ h_i < Len(h_item)
    /\ LET lane == PyObject_Hash(wide, h_item[h_i + 1])
       IN IF lane = WOnes(WordLimbs(wide))
          THEN /\ h_pc' = "done"
               /\ h_ret' = HashError
               /\ UNCHANGED <<h_i, h_acc>>
          ELSE /\ h_acc' = HashRound(wide, h_acc, lane)
               /\ h_i' = h_i + 1
               /\ UNCHANGED <<h_pc, h_ret>>
    /\ UNCHANGED <<wide, h_item, h_self_hash, cmpVars, readVars, iterVars, lifeVars, reprVars>>

\* the code after the loop
HashReturn ==
    /\ h_pc = "loop"
    /\ h_i >= Len(h_item)
    /\ h_pc' = "done"
    /\ h_ret' = HashValue(HashFinish(wide, h_acc, Len(h_item)))
    /\ UNCHANGED <<wide, h_item, h_i, h_acc, h_self_hash>>
    /\ UNCHANGED <<cmpVars, readVars, iterVars, lifeVars, reprVars>>

HashNext == HashLoop \/ HashReturn

-----------------------------------------------------------------------------
(* The hash of a plain tuple, CPython Objects/tupleobject.c (tuplehash), the
   function record_hash was copied from; written as a fold over prefixes. *)

RECURSIVE TupleAcc(_, _, _)
TupleAcc(w, t, k) ==
    IF k = 0 THEN HASH_XXPRIME_5(w)
    ELSE LET acc == WAdd(TupleAcc(w, t, k - 1),
                         WMul(PyObject_Hash(w, t[k]), HASH_XXPRIME_2(w)))
             rot == WOr(WShl(acc, HashRotBits(w)),
                        WShr(acc, 8 * WordLimbs(w) - HashRotBits(w)))
         IN WMul(rot, HASH_XXPRIME_1(w))

TupleHash(w, t) ==
    LET n == WordLimbs(w)
        acc == WAdd(TupleAcc(w, t, Len(t)),
                    WXor(WFromInt(Len(t), n),
                         WXor(HASH_XXPRIME_5(w), WFromInt(LengthMangle, n))))
    IN IF \E k \in 1..Len(t) : PyObject_Hash(w, t[k]) = WOnes(n)
       THEN HashError
       ELSE HashValue(IF acc = WOnes(n) THEN WFromInt(RemapValue, n) ELSE acc)

\* hash(t) as printed by CPython 3.11 on a 64-bit build, as unsigned words:
\* hash(()) = 5740354900026072187, hash((1, 2, 3)) = 529344067295497451,
\* hash((0,)) = -8753497827991233192, hash((-1,)) = 8078679518589016365,
\* hash((H,)) = 1546275796 for H the object of MagicObj
KnownTupleHash64 ==
    {<< <<>>, <<123, 28, 186, 44, 94, 214, 169, 79>> >>,
     << <<PyInt(1), PyInt(2), PyInt(3)>>, <<235, 204, 27, 231, 159, 155, 88, 7>> >>,
     << <<PyInt(0)>>, <<88, 221, 109, 124, 26, 84, 133, 134>> >>,
     << <<PyInt(-1)>>, <<45, 217, 184, 47, 56, 60, 29, 112>> >>,
     << <<MagicObj>>, <<212, 75, 42, 92, 0, 0, 0, 0>> >>}

\* hash(()) = 750394483 on a 32-bit build
KnownTupleHash32 ==
    {<< <<>>, <<115, 28, 186, 44>> >>}

KnownTupleHash(w) == IF w THEN KnownTupleHash64 ELSE KnownTupleHash32

\* C1: when record_hash returns, its result is the hash of the tuple of the
\* same elements (an error exactly when the tuple's hash is an error), it is
\* never -1 on success, and on the tuples whose CPython hash is recorded
\* above (the empty tuple among them) it is that very number.
C1_HashEqualsTupleHash ==
    h_pc = "done" =>
        /\ h_ret = TupleHash(wide, h_item)
        /\ ~h_ret.err => h_ret.val # WOnes(WordLimbs(wide))
        /\ \A k \in KnownTupleHash(wide) : h_item = k[1] => h_ret = HashValue(k[2])

C1_Witness ==
    /\ h_pc = "done"
    /\ h_item = <<PyInt(1), PyInt(2), PyInt(3)>>
    /\ wide
    /\ h_ret = HashValue(<<235, 204, 27, 231, 159, 155, 88, 7>>)

\* C18: the hash of a record is memoized: once record_hash has returned a
\* hash, self_hash of the record holds it.
C18_HashMemoized ==
    (h_pc = "done" /\ ~h_ret.err) => h_self_hash = h_ret.val

-----------------------------------------------------------------------------
(* record_richcompare *)

Ops == {"Py_LT", "Py_LE", "Py_EQ", "Py_NE", "Py_GT", "Py_GE"}

PyBool(b) == IF b THEN "True" ELSE "False"

IntCompare(a, b, op) ==
    CASE op = "Py_LT" -> a < b
      [] op = "Py_LE" -> a <= b
      [] op = "Py_EQ" -> a = b
      [] op = "Py_NE" -> a # b
      [] op = "Py_GT" -> a > b
      [] op = "Py_GE" -> a >= b

\* PyObject_RichCompareBool(a, b, Py_EQ): identical or equal objects
PyObject_RichCompareBool_EQ(a, b) == a = b

\* PyObject_RichCompare(a, b, op) on ints and strings: values of one type
\* are ordered, values of different types are unequal and unorderable
PyObject_RichCompare(a, b, op) ==
    IF a.t = b.t THEN PyBool(IntCompare(a.v, b.v, op))
    ELSE CASE op = "Py_EQ" -> "False"
           [] op = "Py_NE" -> "True"
           [] OTHER -> "TypeError"

\* the switch on op over the two lengths, with >= written as >
SizeCompare_StrictGE(vlen, wlen, op) ==
    CASE op = "Py_LT" -> vlen < wlen
      [] op = "Py_LE" -> vlen <= wlen
      [] op = "Py_EQ" -> vlen = wlen
      [] op = "Py_NE" -> vlen # wlen
      [] op = "Py_GT" -> vlen > wlen
      [] op = "Py_GE" -> vlen > wlen

\* the switch on op over the two lengths
SizeCompare(vlen, wlen, op) ==
    CASE op = "Py_LT" -> vlen < wlen
      [] op = "Py_LE" -> vlen <= wlen
      [] op = "Py_EQ" -> vlen = wlen
      [] op = "Py_NE" -> vlen # wlen
      [] op = "Py_GT" -> vlen > wlen
      [] op = "Py_GE" -> vlen >= wlen

\* PyTuple_Check(x), or x is a Record or an instance of a Record subclass
IsComparable(x) == x.type \in {"tuple", "Record", "RecordSubclass"}

MaxCmpLen == 2

CmpValues == {PyInt(1), PyInt(2), PyStr(0)}

CmpItems == SeqsUpTo(CmpValues, MaxCmpLen) \cup {<<PyInt(1), PyInt(2), PyInt(3)>>}

\* the type checks on v and w
CmpTypeCheck ==
    /\ c_pc = "entry"
    /\ IF IsComparable(c_v) /\ IsComparable(c_w)
       THEN c_pc' = "lens" /\ UNCHANGED c_ret
       ELSE c_pc' = "done" /\ c_ret' = "NotImplemented"
    /\ UNCHANGED <<c_v, c_w, c_op, c_i, hashVars, readVars, iterVars, lifeVars, reprVars>>

\* the two shortcuts on lengths for == and !=
CmpLengths ==
    /\ c_pc = "lens"
    /\ LET vlen == Len(c_v.item)
           wlen == Len(c_w.item)
       IN IF c_op = "Py_EQ" /\ vlen # wlen
          THEN c_pc' = "done" /\ c_ret' = "False"
          ELSE IF c_op = "Py_NE" /\ vlen # wlen
          THEN c_pc' = "done" /\ c_ret' = "True"
          ELSE c_pc' = "scan" /\ UNCHANGED c_ret
    /\ UNCHANGED <<c_v, c_w, c_op, c_i, hashVars, readVars, iterVars, lifeVars, reprVars>>

\* the search loop passes over an index where the items are equal
CmpScan ==
    /\ c_pc = "scan"
    /\ c_i < Len(c_v.item) /\ c_i < Len(c_w.item)
    /\ PyObject_RichCompareBool_EQ(c_v.item[c_i + 1], c_w.item[c_i + 1])
    /\ c_i' = c_i + 1
    /\ UNCHANGED <<c_v, c_w, c_op, c_pc, c_ret, hashVars, readVars, iterVars, lifeVars, reprVars>>

\* no more items to compare: compare sizes
CmpSizes ==
    /\ c_pc = "scan"
    /\ c_i >= Len(c_v.item) \/ c_i >= Len(c_w.item)
    /\ c_pc' = "done"
    /\ c_ret' = PyBool(SizeCompare(Len(c_v.item), Len(c_w.item), c_op))
    /\ UNCHANGED <<c_v, c_w, c_op, c_i, hashVars, readVars, iterVars, lifeVars, reprVars>>

\* an item differs: shortcuts for == and !=, else compare it with op
CmpItem ==
    /\ c_pc = "scan"
    /\ c_i < Len(c_v.item) /\ c_i < Len(c_w.item)
    /\ ~PyObject_RichCompareBool_EQ(c_v.item[c_i + 1], c_w.item[c_i + 1])
    /\ c_pc' = "done"
    /\ c_ret' = CASE c_op = "Py_EQ" -> "False"
                  [] c_op = "Py_NE" -> "True"
                  [] OTHER -> PyObject_RichCompare(c_v.item[c_i + 1],
                                                   c_w.item[c_i + 1], c_op)
    /\ UNCHANGED <<c_v, c_w, c_op, c_i, hashVars, readVars, iterVars, lifeVars, reprVars>>

CmpNext == CmpTypeCheck \/ CmpLengths \/ CmpScan \/ CmpSizes \/ CmpItem

\* The claimed result: the first unequal pair decides, else the lengths do
Min(a, b) == IF a < b THEN a ELSE b

FirstDiff(a, b) == {i \in 1..Min(Len(a), Len(b)) :
                       /\ a[i] # b[i]
                       /\ \A j \in 1..(i - 1) : a[j] = b[j]}

LexCompare(a, b, op) ==
    IF FirstDiff(a, b) # {}
    THEN LET i == CHOOSE i \in FirstDiff(a, b) : TRUE
         IN PyObject_RichCompare(a[i], b[i], op)
    ELSE PyBool(IntCompare(Len(a), Len(b), op))

\* C2: a comparison of a Record with a Record or with a tuple returns the
\* lexicographic result with length fallback, for each of the six operators;
\* anything else as w yields NotImplemented.
C2_CompareIsLexicographic ==
    c_pc = "done" =>
        IF c_w.type = "dict" THEN c_ret = "NotImplemented"
        ELSE c_ret = LexCompare(c_v.item, c_w.item, c_op)

C2_Witness ==
    /\ c_pc = "done"
    /\ c_v = [type |-> "Record", item |-> <<PyInt(1), PyInt(2), PyInt(3)>>]
    /\ c_w = [type |-> "tuple", item |-> <<PyInt(1), PyInt(2)>>]
    /\ c_op = "Py_GE"
    /\ c_ret = "True"

-----------------------------------------------------------------------------
(* Positional and named access: record_item, record_item_by_name,
   record_subscript, record_get, record_contains, record_length.
   A record is given by its ob_item; its descriptor by desc->mapping (a
   function from some names to what the mapping holds for them) and
   desc->keys.  RecordDescriptor() accepts any mapping beside any tuple of
   keys, so both are drawn freely. *)

None == [t |-> "None", v |-> 0]
PyTrue == [t |-> "bool", v |-> 1]
PyFalse == [t |-> "bool", v |-> 0]

NoError == [exc |-> "none", arg |-> NULL]
IndexError == [exc |-> "IndexError", arg |-> NULL]
RuntimeError == [exc |-> "RuntimeError", arg |-> NULL]
TypeError == [exc |-> "TypeError", arg |-> NULL]
KeyError(item) == [exc |-> "KeyError", arg |-> item]
\* the process dies on a wild pointer
Crash == [exc |-> "crash", arg |-> NULL]

Returns(x) == [val |-> x, err |-> NoError]
Raises(e) == [val |-> NULL, err |-> e]
NoResult == Returns(NULL)

\* PyIndex_Check(item)
PyIndex_Check(item) == item.t = "int"

record_item(ob_item, i) ==
    IF i < 0 \/ i >= Len(ob_item) THEN Raises(IndexError)
    ELSE Returns(ob_item[i + 1])

\* record_item_by_name with a negative mapped index wrapped around
\* instead of refused
record_item_by_name_Wrapping(ob_item, mapping, item) ==
    IF item \notin DOMAIN mapping
    THEN [code |-> "APG_ITEM_NOT_FOUND", val |-> NULL, err |-> KeyError(item)]
    ELSE LET mapped == mapping[item]
             i == IF mapped.v < 0 THEN mapped.v + Len(ob_item) ELSE mapped.v
         IN IF ~PyIndex_Check(mapped) \/ record_item(ob_item, i).err # NoError
            THEN [code |-> "APG_ERROR", val |-> NULL, err |-> RuntimeError]
            ELSE [code |-> "APG_ITEM_FOUND", val |-> record_item(ob_item, i).val,
                  err |-> NoError]

\* record_item_by_name with the KeyError raised without the name
record_item_by_name_Anonymous(ob_item, mapping, item) ==
    IF item \notin DOMAIN mapping
    THEN [code |-> "APG_ITEM_NOT_FOUND", val |-> NULL, err |-> KeyError(None)]
    ELSE LET mapped == mapping[item]
         IN IF ~PyIndex_Check(mapped) \/ mapped.v < 0
               \/ record_item(ob_item, mapped.v).err # NoError
            THEN [code |-> "APG_ERROR", val |-> NULL, err |-> RuntimeError]
            ELSE [code |-> "APG_ITEM_FOUND",
                  val |-> record_item(ob_item, mapped.v).val, err |-> NoError]

\* [code, val, err]: APG_ITEM_FOUND with the value, APG_ITEM_NOT_FOUND with
\* KeyError(item) set, APG_ERROR with RuntimeError set
record_item_by_name(ob_item, mapping, item) ==
    IF item \notin DOMAIN mapping
    THEN [code |-> "APG_ITEM_NOT_FOUND", val |-> NULL, err |-> KeyError(item)]
    ELSE LET mapped == mapping[item]
         IN IF ~PyIndex_Check(mapped) \/ mapped.v < 0
               \/ record_item(ob_item, mapped.v).err # NoError
            THEN [code |-> "APG_ERROR", val |-> NULL, err |-> RuntimeError]
            ELSE [code |-> "APG_ITEM_FOUND",
                  val |-> record_item(ob_item, mapped.v).val, err |-> NoError]

\* record_subscript without the adjustment of negative indices
record_subscript_NoWrap(ob_item, mapping, item) ==
    IF PyIndex_Check(item)
    THEN record_item(ob_item, item.v)
    ELSE LET res == record_item_by_name(ob_item, mapping, item)
         IN [val |-> res.val, err |-> res.err]

\* self[item] for item an integer or a name (slice objects are not drawn)
record_subscript(ob_item, mapping, item) ==
    IF PyIndex_Check(item)
    THEN record_item(ob_item,
                     IF item.v < 0 THEN item.v + Len(ob_item) ELSE item.v)
    ELSE LET res == record_item_by_name(ob_item, mapping, item)
         IN [val |-> res.val, err |-> res.err]

\* what the uninitialized local `key` may hold
GarbageKeys == {PyStr(1), PyStr(2), PyInt(0)}

\* record_get after the argument checks, with the error left set
record_get_lookup_KeepError(ob_item, mapping, key, defval, pending) ==
    LET res == record_item_by_name(ob_item, mapping, key)
    IN CASE res.code = "APG_ITEM_NOT_FOUND" -> [val |-> defval, err |-> res.err]
         [] res.code = "APG_ITEM_FOUND" -> [val |-> res.val, err |-> pending]
         [] OTHER -> Raises(res.err)

\* record_get after the argument checks: `pending` is the error already set
record_get_lookup(ob_item, mapping, key, defval, pending) ==
    LET res == record_item_by_name(ob_item, mapping, key)
    IN CASE res.code = "APG_ITEM_NOT_FOUND" -> Returns(defval)
         [] res.code = "APG_ITEM_FOUND" -> [val |-> res.val, err |-> pending]
         [] OTHER -> Raises(res.err)

\* Record.get(*args, **kw): every result the call can have.  With other than
\* 1 or 2 arguments the TypeError is set but the function goes on, reading
\* `key` uninitialized.
record_get(ob_item, mapping, args, kw) ==
    LET nargs == Len(args)
        defval == IF nargs = 2 THEN args[2] ELSE None
    IN IF kw # 0 THEN {Raises(TypeError)}
       ELSE IF nargs \in {1, 2}
       THEN {record_get_lookup(ob_item, mapping, args[1], defval, NoError)}
       ELSE {record_get_lookup(ob_item, mapping, key, defval, TypeError) :
                key \in GarbageKeys} \cup {Raises(Crash)}

\* record_contains answering from the mapping
record_contains_ByMapping(keys, mapping, el) == el \in DOMAIN mapping

\* el in self: PySequence_Contains(desc->keys, el)
record_contains(keys, mapping, el) == \E k \in 1..Len(keys) : keys[k] = el

MaxReadSize == 2
MaxReadKeys == 1

ReadValues == {PyInt(10), PyInt(20)}
Names == {PyStr(1), PyStr(2)}
MappedValues == {PyInt(i) : i \in (-1)..MaxReadSize} \cup {PyStr(9)}
Mappings == UNION {[D -> MappedValues] : D \in SUBSET Names}
QueryKeys == Names \cup {AList}
Defaults == {None, PyInt(99)}
IndexArgs == {PyInt(i) : i \in (-(MaxReadSize + 1))..(MaxReadSize + 1)}
GetArgs == {<<>>} \cup {<<k>> : k \in QueryKeys}
              \cup {<<k, d>> : k \in QueryKeys, d \in Defaults}
              \cup {<<k, d, None>> : k \in Names, d \in Defaults}

ReadSubscript ==
    /\ r_call.op = "none"
    /\ \E item \in IndexArgs \cup QueryKeys :
          /\ r_call' = [op |-> "subscript", args |-> <<item>>, kw |-> 0]
          /\ r_ret' = record_subscript(r_item, r_mapping, item)
    /\ UNCHANGED <<r_item, r_keys, r_mapping, hashVars, cmpVars, iterVars, lifeVars, reprVars>>

ReadGet ==
    /\ r_call.op = "none"
    /\ \E args \in GetArgs, kw \in {0, 1} :
          /\ r_call' = [op |-> "get", args |-> args, kw |-> kw]
          /\ r_ret' \in record_get(r_item, r_mapping, args, kw)
    /\ UNCHANGED <<r_item, r_keys, r_mapping, hashVars, cmpVars, iterVars, lifeVars, reprVars>>

ReadContains ==
    /\ r_call.op = "none"
    /\ \E el \in QueryKeys :
          /\ r_call' = [op |-> "contains", args |-> <<el>>, kw |-> 0]
          /\ r_ret' = Returns(IF record_contains(r_keys, r_mapping, el)
                              THEN PyTrue ELSE PyFalse)
    /\ UNCHANGED <<r_item, r_keys, r_mapping, hashVars, cmpVars, iterVars, lifeVars, reprVars>>

ReadLength ==
    /\ r_call.op = "none"
    /\ r_call' = [op |-> "length", args |-> <<>>, kw |-> 0]
    /\ r_ret' = Returns(PyInt(Len(r_item)))
    /\ UNCHANGED <<r_item, r_keys, r_mapping, hashVars, cmpVars, iterVars, lifeVars, reprVars>>

\* the caller takes the result and goes on
ReadReturn ==
    /\ r_call.op \notin {"none", "idle"}
    /\ r_call' = [op |-> "none", args |-> <<>>, kw |-> 0]
    /\ r_ret' = NoResult
    /\ UNCHANGED <<r_item, r_keys, r_mapping, hashVars, cmpVars, iterVars, lifeVars, reprVars>>

ReadNext == ReadSubscript \/ ReadGet \/ ReadContains \/ ReadLength \/ ReadReturn

DescUnchanged == r_keys' = r_keys /\ r_mapping' = r_mapping

\* C3: r[i] for an integer i returns slot i for 0 <= i < n, slot i + n for
\* -n <= i < 0, and otherwise fails with IndexError; the record and its
\* descriptor are as they were.
C3_PositionalAccess ==
    [][(r_call'.op = "subscript" /\ PyIndex_Check(r_call'.args[1])) =>
          LET i == r_call'.args[1].v
              n == Len(r_item)
          IN /\ r_ret' = IF 0 <= i /\ i < n THEN Returns(r_item[i + 1])
                         ELSE IF -n <= i /\ i < 0 THEN Returns(r_item[i + n + 1])
                         ELSE Raises(IndexError)
             /\ r_item' = r_item
             /\ DescUnchanged]_vars

C3_Witness ==
    /\ r_call = [op |-> "subscript", args |-> <<PyInt(-1)>>, kw |-> 0]
    /\ r_item = <<PyInt(10), PyInt(20)>>
    /\ r_ret = Returns(PyInt(20))

IsNamedSubscript == r_call.op = "subscript" /\ ~PyIndex_Check(r_call.args[1])

\* C4 as claimed: whenever the mapping holds an index for the name and r[index]
\* returns a value, r[name] returns that value.
C4_NamedEqualsPositional ==
    (IsNamedSubscript /\ r_call.args[1] \in DOMAIN r_mapping
        /\ PyIndex_Check(r_mapping[r_call.args[1]])) =>
       LET byIndex == record_subscript(r_item, r_mapping, r_mapping[r_call.args[1]])
       IN byIndex.err = NoError => r_ret = byIndex

\* C4 as amended: when the mapping holds an index i for the name, r[name] is
\* r[i] for 0 <= i < n, and fails with RuntimeError for every other i,
\* the negative ones that r[i] would accept included.
C4_NamedEqualsPositionalInRange ==
    (IsNamedSubscript /\ r_call.args[1] \in DOMAIN r_mapping
        /\ PyIndex_Check(r_mapping[r_call.args[1]])) =>
       LET mapped == r_mapping[r_call.args[1]]
       IN IF 0 <= mapped.v /\ mapped.v < Len(r_item)
          THEN /\ r_ret = Returns(r_item[mapped.v + 1])
               /\ r_ret = record_subscript(r_item, r_mapping, mapped)
          ELSE r_ret = Raises(RuntimeError)

C4_Witness ==
    /\ IsNamedSubscript
    /\ r_call.args[1] \in DOMAIN r_mapping
    /\ r_mapping[r_call.args[1]] = PyInt(1)
    /\ r_item = <<PyInt(10), PyInt(20)>>
    /\ r_ret = Returns(PyInt(20))

\* C5: r[name] for a name the mapping does not hold fails with KeyError
\* carrying that name and returns nothing; the record and its descriptor are
\* as they were.
C5_MissingNameKeyError ==
    [][(r_call'.op = "subscript" /\ ~PyIndex_Check(r_call'.args[1])
          /\ r_call'.args[1] \notin DOMAIN r_mapping) =>
          /\ r_ret' = [val |-> NULL, err |-> KeyError(r_call'.args[1])]
          /\ r_item' = r_item
          /\ DescUnchanged]_vars

C5_Witness ==
    /\ IsNamedSubscript
    /\ r_call.args[1] = PyStr(2)
    /\ DOMAIN r_mapping = {PyStr(1)}
    /\ r_ret = Raises(KeyError(PyStr(2)))

\* C6: r.get(name, D) (and r.get(name), where D is None) returns D with no
\* error set when the mapping does not hold the name, and otherwise does what
\* r[name] does.
C6_GetReturnsDefault ==
    (r_call.op = "get" /\ r_call.kw = 0 /\ Len(r_call.args) \in {1, 2}) =>
       LET name == r_call.args[1]
           D == IF Len(r_call.args) = 2 THEN r_call.args[2] ELSE None
       IN IF name \notin DOMAIN r_mapping
          THEN r_ret = [val |-> D, err |-> NoError]
          ELSE r_ret = record_subscript(r_item, r_mapping, name)

C6_Witness ==
    /\ r_call = [op |-> "get", args |-> <<PyStr(2), PyInt(99)>>, kw |-> 0]
    /\ PyStr(2) \notin DOMAIN r_mapping
    /\ Len(r_item) = 2
    /\ r_ret = Returns(PyInt(99))

\* C22: r.get with a number of positional arguments other than 1 or 2, or
\* with keyword arguments, fails with TypeError and nothing else: no value is
\* returned and no outcome of a lookup shows.
C22_GetRejectsBadArguments ==
    (r_call.op = "get" /\ (r_call.kw # 0 \/ Len(r_call.args) \notin {1, 2})) =>
       r_ret = Raises(TypeError)

\* C7 as claimed: name in r is true exactly for the names for which r[name]
\* does not fail with KeyError.
C7_ContainsIffNamedAccess ==
    r_call.op = "contains" =>
       (r_ret = Returns(PyTrue)
          <=> record_subscript(r_item, r_mapping, r_call.args[1]).err.exc # "KeyError")

\* C7 as amended: name in r is true exactly for the names that occur in the
\* descriptor's keys, whatever the mapping holds.
C7_ContainsIffInKeys ==
    r_call.op = "contains" =>
       /\ r_ret \in {Returns(PyTrue), Returns(PyFalse)}
       /\ r_ret = Returns(PyTrue) <=> r_call.args[1] \in {r_keys[k] : k \in 1..Len(r_keys)}

C7_Witness ==
    /\ r_call = [op |-> "contains", args |-> <<PyStr(1)>>, kw |-> 0]
    /\ r_keys = <<PyStr(1)>>
    /\ PyStr(1) \in DOMAIN r_mapping
    /\ r_ret = Returns(PyTrue)

-----------------------------------------------------------------------------
(* The iterators: record_new_iter, record_iter_next, record_iter_len,
   record_iter_dealloc and record_new_items_iter, record_items_next,
   record_items_len, record_items_dealloc.  it_seq is TRUE while the iterator
   holds its reference to the record, FALSE once it is NULL; it_key_iter is
   the position of the tuple iterator over desc->keys, or KeyIterNULL.
   Allocation failures are not drawn. *)

KeyIterNULL == -1

NoValueIter == [st |-> "none", it_index |-> 0, it_seq |-> FALSE]
NoItemsIter == [st |-> "none", it_index |-> 0, it_key_iter |-> KeyIterNULL,
                it_seq |-> FALSE]

\* record_iter_next dropping the reference at the end but not the pointer
record_iter_next_KeepPointer(it, ob_item) ==
    IF ~it.it_seq THEN [it |-> it, item |-> NULL, decref |-> FALSE]
    ELSE IF it.it_index < Len(ob_item)
    THEN [it |-> [it EXCEPT !.it_index = @ + 1],
          item |-> ob_item[it.it_index + 1], decref |-> FALSE]
    ELSE [it |-> it, item |-> NULL, decref |-> TRUE]

\* [it, item, decref]: the iterator afterwards, what is returned (NULL for
\* exhaustion) and whether the record was Py_DECREF'ed
record_iter_next(it, ob_item) ==
    IF ~it.it_seq THEN [it |-> it, item |-> NULL, decref |-> FALSE]
    ELSE IF it.it_index < Len(ob_item)
    THEN [it |-> [it EXCEPT !.it_index = @ + 1],
          item |-> ob_item[it.it_index + 1], decref |-> FALSE]
    ELSE [it |-> [it EXCEPT !.it_seq = FALSE], item |-> NULL, decref |-> TRUE]

\* __length_hint__ of either iterator
record_iter_len(it, ob_item) ==
    IF it.it_seq THEN Len(ob_item) - it.it_index ELSE 0

\* record_items_next taking the value before the key, so that a key sequence
\* that ends first leaves the iterator as it is
record_items_next_ValueFirst(it, ob_item, keys) ==
    IF ~it.it_seq THEN [it |-> it, item |-> <<>>, decref |-> FALSE]
    ELSE IF it.it_index < Len(ob_item) /\ it.it_key_iter < Len(keys)
    THEN [it |-> [it EXCEPT !.it_index = @ + 1, !.it_key_iter = @ + 1],
          item |-> <<keys[it.it_key_iter + 1], ob_item[it.it_index + 1]>>,
          decref |-> FALSE]
    ELSE IF it.it_index < Len(ob_item)
    THEN [it |-> it, item |-> <<>>, decref |-> FALSE]
    ELSE [it |-> [it EXCEPT !.it_key_iter = KeyIterNULL, !.it_seq = FALSE],
          item |-> <<>>, decref |-> TRUE]

\* [it, item, decref]: item is the pair returned, <<>> for exhaustion
record_items_next(it, ob_item, keys) ==
    IF ~it.it_seq THEN [it |-> it, item |-> <<>>, decref |-> FALSE]
    ELSE IF it.it_key_iter >= Len(keys)
    THEN \* PyIter_Next returned NULL: goto exhausted
         [it |-> [it EXCEPT !.it_key_iter = KeyIterNULL, !.it_seq = FALSE],
          item |-> <<>>, decref |-> TRUE]
    ELSE IF it.it_index < Len(ob_item)
    THEN [it |-> [it EXCEPT !.it_index = @ + 1, !.it_key_iter = @ + 1],
          item |-> <<keys[it.it_key_iter + 1], ob_item[it.it_index + 1]>>,
          decref |-> FALSE]
    ELSE \* a key was taken but no value is left: goto exhausted
         [it |-> [it EXCEPT !.it_key_iter = KeyIterNULL, !.it_seq = FALSE],
          item |-> <<>>, decref |-> TRUE]

MaxIterSize == 2
MaxIterKeys == 2
MaxStops == 2

IterValues == {PyInt(10), PyInt(20)}

\* record_new_iter, from r.values() or iter(r)
NewValueIter ==
    /\ i_held /\ vi.st = "none"
    /\ vi' = [st |-> "live", it_index |-> 0, it_seq |-> TRUE]
    /\ i_refcnt' = i_refcnt + 1
    /\ UNCHANGED <<i_item, i_keys, i_held, vi_out, vi_stops, ii, ii_out, ii_stops>>
    /\ UNCHANGED <<hashVars, cmpVars, readVars, lifeVars, reprVars>>

ValueNext ==
    /\ vi.st = "live" /\ vi_stops < MaxStops
    /\ LET res == record_iter_next(vi, i_item)
       IN /\ vi' = res.it
          /\ i_refcnt' = IF res.decref THEN i_refcnt - 1 ELSE i_refcnt
          /\ IF res.item = NULL
             THEN vi_stops' = vi_stops + 1 /\ UNCHANGED vi_out
             ELSE vi_out' = Append(vi_out, res.item) /\ UNCHANGED vi_stops
    /\ UNCHANGED <<i_item, i_keys, i_held, ii, ii_out, ii_stops>>
    /\ UNCHANGED <<hashVars, cmpVars, readVars, lifeVars, reprVars>>

\* record_iter_dealloc: Py_CLEAR(it->it_seq)
ValueIterDealloc ==
    /\ vi.st = "live"
    /\ vi' = [vi EXCEPT !.st = "freed", !.it_seq = FALSE]
    /\ i_refcnt' = IF vi.it_seq THEN i_refcnt - 1 ELSE i_refcnt
    /\ UNCHANGED <<i_item, i_keys, i_held, vi_out, vi_stops, ii, ii_out, ii_stops>>
    /\ UNCHANGED <<hashVars, cmpVars, readVars, lifeVars, reprVars>>

\* record_new_items_iter, from r.items()
NewItemsIter ==
    /\ i_held /\ ii.st = "none"
    /\ ii' = [st |-> "live", it_index |-> 0, it_key_iter |-> 0, it_seq |-> TRUE]
    /\ i_refcnt' = i_refcnt + 1
    /\ UNCHANGED <<i_item, i_keys, i_held, vi, vi_out, vi_stops, ii_out, ii_stops>>
    /\ UNCHANGED <<hashVars, cmpVars, readVars, lifeVars, reprVars>>

ItemsNext ==
    /\ ii.st = "live" /\ ii_stops < MaxStops
    /\ LET res == record_items_next(ii, i_item, i_keys)
       IN /\ ii' = res.it
          /\ i_refcnt' = IF res.decref THEN i_refcnt - 1 ELSE i_refcnt
          /\ IF res.item = <<>>
             THEN ii_stops' = ii_stops + 1 /\ UNCHANGED ii_out
             ELSE ii_out' = Append(ii_out, res.item) /\ UNCHANGED ii_stops
    /\ UNCHANGED <<i_item, i_keys, i_held, vi, vi_out, vi_stops>>
    /\ UNCHANGED <<hashVars, cmpVars, readVars, lifeVars, reprVars>>

\* record_items_dealloc: Py_CLEAR(it->it_key_iter); Py_CLEAR(it->it_seq)
ItemsIterDealloc ==
    /\ ii.st = "live"
    /\ ii' = [ii EXCEPT !.st = "freed", !.it_key_iter = KeyIterNULL, !.it_seq = FALSE]
    /\ i_refcnt' = IF ii.it_seq THEN i_refcnt - 1 ELSE i_refcnt
    /\ UNCHANGED <<i_item, i_keys, i_held, vi, vi_out, vi_stops, ii_out, ii_stops>>
    /\ UNCHANGED <<hashVars, cmpVars, readVars, lifeVars, reprVars>>

\* the caller lets go of the record; the iterators may be its last holders
DropRecord ==
    /\ i_held
    /\ i_held' = FALSE
    /\ i_refcnt' = i_refcnt - 1
    /\ UNCHANGED <<i_item, i_keys, vi, vi_out, vi_stops, ii, ii_out, ii_stops>>
    /\ UNCHANGED <<hashVars, cmpVars, readVars, lifeVars, reprVars>>

IterNext ==
    \/ NewValueIter \/ ValueNext \/ ValueIterDealloc
    \/ NewItemsIter \/ ItemsNext \/ ItemsIterDealloc
    \/ DropRecord

Holders == (IF i_held THEN 1 ELSE 0) + (IF vi.it_seq THEN 1 ELSE 0)
              + (IF ii.it_seq THEN 1 ELSE 0)

\* C8: the item iterator has returned the pairs (keys[k], slot[k]) for the
\* first it_index positions, in order, and never more than the shorter of keys
\* and slots; once it has signalled exhaustion it has returned exactly
\* min(size, len(keys)) pairs, its key iterator and its record reference are
\* cleared (the reference given up once), and it returns nothing more.
C8_ItemsIterator ==
    /\ ii_out = [k \in 1..ii.it_index |-> <<i_keys[k], i_item[k]>>]
    /\ ii.it_index <= Min(Len(i_item), Len(i_keys))
    /\ i_refcnt = Holders
    /\ ii.st = "live" /\ ii.it_seq => ii_stops = 0 /\ ii.it_key_iter = ii.it_index
    /\ ii_stops > 0 =>
          /\ Len(ii_out) = Min(Len(i_item), Len(i_keys))
          /\ ii.it_key_iter = KeyIterNULL
          /\ ~ii.it_seq

C8_Witness ==
    /\ Len(i_keys) = 2 /\ Len(i_item) = 1
    /\ ii.st = "live"
    /\ ii_stops = 2
    /\ ii_out = << <<i_keys[1], i_item[1]>> >>

\* C9: the value iterator has returned slots 0 .. it_index - 1, in order; once
\* it has signalled exhaustion it has returned every slot exactly once, has
\* given up its record reference (once: the count is that of the holders
\* left), and returns nothing more; its length hint is size - it_index before
\* exhaustion and 0 after.
C9_ValueIterator ==
    /\ vi_out = SubSeq(i_item, 1, vi.it_index)
    /\ i_refcnt = Holders
    /\ vi.st = "live" /\ vi.it_seq => vi_stops = 0
    /\ vi_stops > 0 => vi_out = i_item /\ ~vi.it_seq
    /\ vi.st = "live" =>
          record_iter_len(vi, i_item) =
             IF vi_stops = 0 THEN Len(i_item) - Len(vi_out) ELSE 0

C9_Witness ==
    /\ Len(i_item) = 2
    /\ vi.st = "live"
    /\ vi_stops = 2
    /\ vi_out = i_item
    /\ ~i_held /\ i_refcnt = 0

-----------------------------------------------------------------------------
(* The life of a record: record_desc_vectorcall, make_record,
   ApgRecord_SET_ITEM, record_traverse, record_item on a record under
   construction, record_dealloc, and the per-thread free lists.
   A block of the heap is "free" (not allocated), "live" (an object) or
   "pooled" (kept on a free list).  A slot holds NULL, a value, or, in a
   pooled block, the link Ptr(next); ob_item[0] of a block of size 0 lies
   past the end of the block and is kept in the field oob. *)

\* Largest record to save on free list
ApgRecord_MAXSAVESIZE == 20
\* Maximum number of records of each size to save
ApgRecord_MAXFREELIST == 2000

MaxBlocks == 2

Blocks == 1..MaxBlocks
Threads == {1, 2}
\* the sizes passed to make_record
LifeSizes == {-1, 0, 1, 2}
LifeValues == {PyStr(7)}
\* descriptor d is RecordDescriptor(mapping, keys) for a tuple of d keys
DescIds == {1, 2}
NoDesc == 0

Ptr(b) == [t |-> "ptr", v |-> b]

NoBlock ==
    [st |-> "free", type |-> "Record", size |-> 0, desc |-> NoDesc,
     self_hash |-> -1, ob_item |-> <<>>, oob |-> NULL, tracked |-> FALSE]

NoFreelist ==
    [alloc |-> FALSE,
     freelist |-> [n \in 0..(ApgRecord_MAXSAVESIZE - 1) |-> 0],
     numfree |-> [n \in 0..(ApgRecord_MAXSAVESIZE - 1) |-> 0]]

NoObservation == "none"

\* no repr() has returned
NoRepr == [err |-> FALSE, val |-> <<>>]

\* the record_module_state once record_module_exec has run: the TSS key is
\* created and the types are set; record_module_clear undoes both
ExecState == [freelist_key |-> TRUE, types |-> TRUE]
ClearedState == [freelist_key |-> FALSE, types |-> FALSE]

NoThread == 0

\* PyThread_tss_get(&state->freelist_key) on thread t: the slot of thread t
PyThread_tss_get_AnyThread(t) == 1
PyThread_tss_get(t) == t

\* the thread's record_freelist_state, allocated zeroed on first use
get_freelist_state(f) == [f EXCEPT !.alloc = TRUE]

\* o->ob_item[0], and o with ob_item[0] = x
Slot0(o) == IF o.size >= 1 THEN o.ob_item[1] ELSE o.oob
WithSlot0(o, x) ==
    IF o.size >= 1 THEN [o EXCEPT !.ob_item[1] = x] ELSE [o EXCEPT !.oob = x]

\* len(desc->keys) of descriptor d
KeysLen(d) == d

Constructed_KeepItems(o, desc, size) ==
    [o EXCEPT !.st = "live",
              !.desc = desc,
              !.self_hash = -1,
              !.tracked = TRUE]

Constructed_SizeFromKeys(o, desc, size) ==
    [o EXCEPT !.st = "live",
              !.size = KeysLen(desc),
              !.ob_item = [i \in 1..Len(o.ob_item) |->
                              IF i <= size THEN NULL ELSE o.ob_item[i]],
              !.desc = desc,
              !.self_hash = -1,
              !.tracked = TRUE]

\* make_record from its loop on: size slots set to NULL, desc, self_hash, and
\* the object tracked by the collector
Constructed(o, desc, size) ==
    [o EXCEPT !.st = "live",
              !.ob_item = [i \in 1..Len(o.ob_item) |->
                              IF i <= size THEN NULL ELSE o.ob_item[i]],
              !.desc = desc,
              !.self_hash = -1,
              !.tracked = TRUE]

\* fresh storage for `size` slots: PyObject_GC_NewVar or tp_alloc
Allocated(type, size) ==
    [NoBlock EXCEPT !.type = type, !.size = size,
                    !.ob_item = [i \in 1..size |-> NULL],
                    !.tracked = (type # "Record")]

\* RecordDescriptor(mapping, keys): keys must be a tuple
RecordDescNew ==
    /\ \E keys \in DescIds \cup {NoDesc} :
          IF keys = NoDesc
          THEN g_obs' = "TypeError" /\ UNCHANGED descs
          ELSE descs' = descs \cup {keys} /\ g_obs' = "ok"
    /\ UNCHANGED <<heap, fl, desc_rc, val_rc, state, g_thread>>
    /\ UNCHANGED <<hashVars, cmpVars, readVars, iterVars, reprVars>>

make_record_uses_freelist_Above(type, size) ==
    type = "Record" /\ size > ApgRecord_MAXSAVESIZE

\* make_record looks at the free lists for the Record type itself and a size
\* below ApgRecord_MAXSAVESIZE
make_record_uses_freelist(type, size) ==
    type = "Record" /\ size < ApgRecord_MAXSAVESIZE

\* make_record(type, desc, size, state) on thread t; desc = NoDesc stands for
\* an argument that is no RecordDescriptor, avail for the addresses the
\* allocator may return
make_record(t, type, desc, size, avail) ==
    /\ g_thread' = t
    /\ IF size < 0 \/ desc = NoDesc \/ ~state.types
       THEN /\ g_obs' = "SystemError"
            /\ UNCHANGED <<heap, fl, desc_rc>>
       ELSE LET pooling == make_record_uses_freelist(type, size)
                slot == PyThread_tss_get(t)
                f == IF pooling THEN get_freelist_state(fl[slot]) ELSE fl[slot]
                o == f.freelist[size]
            IN /\ IF pooling /\ o # 0
                  THEN /\ heap' = [heap EXCEPT
                                      ![o] = Constructed(heap[o], desc, size)]
                       /\ fl' = [fl EXCEPT ![slot] =
                                    [f EXCEPT !.freelist[size] = Slot0(heap[o]).v,
                                              !.numfree[size] = @ - 1]]
                       /\ g_obs' = "reused"
                  ELSE /\ \E fresh \in avail :
                             heap' = [heap EXCEPT ![fresh] =
                                         Constructed(Allocated(type, size),
                                                     desc, size)]
                       /\ fl' = [fl EXCEPT ![slot] = f]
                       /\ g_obs' = "ok"
               /\ desc_rc' = [desc_rc EXCEPT ![desc] = @ + 1]

\* the addresses of the heap not in use
FreeBlocks == {o \in DOMAIN heap : heap[o].st = "free"}

\* desc.make_record(type, size), by any thread
MakeRecord ==
    /\ \E t \in Threads, type \in {"Record", "RecordSubclass"},
          desc \in descs \cup {NoDesc}, size \in LifeSizes :
          make_record(t, type, desc, size, FreeBlocks)
    /\ UNCHANGED <<descs, val_rc, state>>
    /\ UNCHANGED <<hashVars, cmpVars, readVars, iterVars, reprVars>>

\* type(): record_new refuses the Record type itself and gives a subclass an
\* empty, zero-filled object from tp_alloc
RecordNew ==
    /\ \E type \in {"Record", "RecordSubclass"} :
          IF type = "Record" /\ state.types
          THEN g_obs' = "TypeError" /\ UNCHANGED heap
          ELSE /\ \E fresh \in FreeBlocks :
                     heap' = [heap EXCEPT ![fresh] =
                                 [Allocated(type, 0) EXCEPT !.st = "live",
                                                            !.self_hash = 0,
                                                            !.tracked = TRUE]]
               /\ g_obs' = "ok"
    /\ UNCHANGED <<fl, descs, desc_rc, val_rc, state, g_thread>>
    /\ UNCHANGED <<hashVars, cmpVars, readVars, iterVars, reprVars>>

\* ApgRecord_SET_ITEM(o, i, v) by the code that builds the record: it fills a
\* slot that is still NULL and hands over its reference to v
SetItem ==
    /\ \E o \in DOMAIN heap, v \in LifeValues :
          /\ heap[o].st = "live"
          /\ \E i \in 1..heap[o].size :
                /\ heap[o].ob_item[i] = NULL
                /\ heap' = [heap EXCEPT ![o].ob_item[i] = v]
          /\ val_rc' = [val_rc EXCEPT ![v] = @ + 1]
    /\ UNCHANGED <<fl, descs, desc_rc, state, g_obs, g_thread>>
    /\ UNCHANGED <<hashVars, cmpVars, readVars, iterVars, reprVars>>

\* record_traverse, called by the collector on a tracked object: Py_VISIT
\* passes over a NULL slot
GcTraverse ==
    /\ \E o \in DOMAIN heap :
          /\ heap[o].st = "live" /\ heap[o].tracked
          /\ g_obs' = IF \E i \in 1..heap[o].size : heap[o].ob_item[i] = NULL
                      THEN "unset" ELSE "ok"
    /\ UNCHANGED <<heap, fl, descs, desc_rc, val_rc, state, g_thread>>
    /\ UNCHANGED <<hashVars, cmpVars, readVars, iterVars, reprVars>>

\* record_item(o, i) by whoever holds the object: Py_NewRef of a NULL slot
\* ends the process
ReadItem ==
    /\ \E o \in DOMAIN heap :
          /\ heap[o].st = "live"
          /\ \E i \in 1..heap[o].size :
                g_obs' = IF heap[o].ob_item[i] = NULL THEN "crash" ELSE "ok"
    /\ UNCHANGED <<heap, fl, descs, desc_rc, val_rc, state, g_thread>>
    /\ UNCHANGED <<hashVars, cmpVars, readVars, iterVars, reprVars>>

\* the references record_dealloc drops on value v: one per slot holding it
SlotsHolding(o, v) == Cardinality({i \in 1..o.size : o.ob_item[i] = v})

\* what storing the link one word past the end of a block of size 0 can do.
\* "kept": the word is spare room the allocator rounded the block up to, and
\* the link reads back (pymalloc).  "lost": the word is the first word of the
\* neighbouring block, whose owner or the allocator overwrites it, and the
\* link reads back as NULL (an allocator without rounding, as in the
\* free-threaded build).  "crash": the damage to the allocator's or the
\* neighbour's data ends the process (a checking allocator aborts).
PastTheEnd == {"kept", "lost", "crash"}

record_dealloc_OneTooMany(o, t) ==
    LET len == heap[o].size
        dead == [heap[o] EXCEPT !.tracked = FALSE, !.self_hash = -1,
                                !.desc = NoDesc]
        pooling == /\ len < ApgRecord_MAXSAVESIZE
                   /\ heap[o].type = "Record" /\ state.types
        slot == PyThread_tss_get(t)
        f == IF pooling THEN get_freelist_state(fl[slot]) ELSE fl[slot]
    IN /\ g_thread' = t
       /\ desc_rc' = IF heap[o].desc = NoDesc THEN desc_rc
                     ELSE [desc_rc EXCEPT ![heap[o].desc] = @ - 1]
       /\ val_rc' = [v \in LifeValues |-> val_rc[v] - SlotsHolding(heap[o], v)]
       /\ IF pooling /\ f.numfree[len] <= ApgRecord_MAXFREELIST
          THEN /\ \E out \in (IF len = 0 THEN PastTheEnd ELSE {"kept"}) :
                     /\ heap' = [heap EXCEPT ![o] =
                                    [WithSlot0(dead, IF out = "lost" THEN Ptr(0)
                                                     ELSE Ptr(f.freelist[len]))
                                        EXCEPT !.st = "pooled"]]
                     /\ g_obs' = IF out = "crash" THEN "crash" ELSE g_obs
               /\ fl' = [fl EXCEPT ![slot] =
                            [f EXCEPT !.numfree[len] = @ + 1,
                                      !.freelist[len] = o]]
          ELSE /\ heap' = [heap EXCEPT ![o] = NoBlock]
               /\ fl' = [fl EXCEPT ![slot] = f]
               /\ UNCHANGED g_obs

\* record_dealloc(o) on thread t, the last reference gone
record_dealloc(o, t) ==
    LET len == heap[o].size
        dead == [heap[o] EXCEPT !.tracked = FALSE, !.self_hash = -1,
                                !.desc = NoDesc]
        pooling == /\ len < ApgRecord_MAXSAVESIZE
                   /\ heap[o].type = "Record" /\ state.types
        slot == PyThread_tss_get(t)
        f == IF pooling THEN get_freelist_state(fl[slot]) ELSE fl[slot]
    IN /\ g_thread' = t
       /\ desc_rc' = IF heap[o].desc = NoDesc THEN desc_rc
                     ELSE [desc_rc EXCEPT ![heap[o].desc] = @ - 1]
       /\ val_rc' = [v \in LifeValues |-> val_rc[v] - SlotsHolding(heap[o], v)]
       /\ IF pooling /\ f.numfree[len] < ApgRecord_MAXFREELIST
          THEN /\ \E out \in (IF len = 0 THEN PastTheEnd ELSE {"kept"}) :
                     /\ heap' = [heap EXCEPT ![o] =
                                    [WithSlot0(dead, IF out = "lost" THEN Ptr(0)
                                                     ELSE Ptr(f.freelist[len]))
                                        EXCEPT !.st = "pooled"]]
                     /\ g_obs' = IF out = "crash" THEN "crash" ELSE g_obs
               /\ fl' = [fl EXCEPT ![slot] =
                            [f EXCEPT !.numfree[len] = @ + 1,
                                      !.freelist[len] = o]]
          ELSE /\ heap' = [heap EXCEPT ![o] = NoBlock]
               /\ fl' = [fl EXCEPT ![slot] = f]
               /\ UNCHANGED g_obs

\* the last reference to a record dropped, by any thread
Dealloc ==
    /\ \E o \in DOMAIN heap, t \in Threads :
          /\ heap[o].st = "live"
          /\ record_dealloc(o, t)
    /\ UNCHANGED <<descs, state>>
    /\ UNCHANGED <<hashVars, cmpVars, readVars, iterVars, reprVars>>

\* the blocks one loop of record_module_clear hands to PyObject_GC_Del,
\* starting at op: it follows the links until it reads NULL
RECURSIVE WalkFrees(_, _)
WalkFrees(h, op) ==
    IF op = 0 THEN {} ELSE {op} \cup WalkFrees(h, Slot0(h[op]).v)

\* record_module_clear, run by thread t: it frees the blocks on the free lists
\* of the calling thread and that thread's record_freelist_state, deletes the
\* TSS key and clears the types
ModuleClear ==
    /\ \E t \in Threads :
          /\ g_thread' = t
          /\ LET slot == PyThread_tss_get(t)
                 freed == UNION {WalkFrees(heap, fl[slot].freelist[i]) :
                                    i \in 0..(ApgRecord_MAXSAVESIZE - 1)}
             IN IF state.freelist_key /\ fl[slot].alloc
                THEN /\ heap' = [o \in DOMAIN heap |->
                                    IF o \in freed THEN NoBlock ELSE heap[o]]
                     /\ fl' = [fl EXCEPT ![slot] = NoFreelist]
                ELSE UNCHANGED <<heap, fl>>
    /\ state' = ClearedState
    /\ UNCHANGED <<descs, desc_rc, val_rc, g_obs>>
    /\ UNCHANGED <<hashVars, cmpVars, readVars, iterVars, reprVars>>

\* C10: every record registered with the collector, and every record a read
\* reaches, has all its slots set: no traversal and no read meets an unset
\* slot.
C10_NoUnsetSlotVisible ==
    /\ \A o \in DOMAIN heap :
          (heap[o].st = "live" /\ heap[o].tracked) =>
             \A i \in 1..heap[o].size : heap[o].ob_item[i] # NULL
    /\ g_obs \notin {"unset", "crash"}

Live(o) == heap[o].st = "live"
Pooled(o) == heap[o].st = "pooled"

\* C11 as stated: the descriptor of every record has as many keys as the
\* record has slots.
C11_KeysMatchSize ==
    \A o \in DOMAIN heap :
       (Live(o) /\ heap[o].desc # NoDesc) => KeysLen(heap[o].desc) = heap[o].size

\* C11, amended: a record has as many slots as its size says, and neither its
\* size nor its descriptor changes while it lives; the number of keys of the
\* descriptor is whatever the caller of make_record paired the size with.
C11_SizeAndDescFixed ==
    /\ [](\A o \in DOMAIN heap : Live(o) => Len(heap[o].ob_item) = heap[o].size)
    /\ [][\A o \in DOMAIN heap :
             (Live(o) /\ heap'[o].st = "live") =>
                /\ heap'[o].size = heap[o].size
                /\ heap'[o].desc = heap[o].desc]_vars

\* a populated record of two slots whose descriptor has one key
C11_Witness ==
    \E o \in DOMAIN heap :
       /\ Live(o) /\ heap[o].size = 2 /\ heap[o].desc = 1
       /\ \A i \in 1..2 : heap[o].ob_item[i] \in LifeValues

\* block o is handed out by make_record in this step
Acquired(o) == ~Live(o) /\ heap'[o].st = "live" /\ heap'[o].desc # NoDesc
\* block o is put on a free list in this step
Released(o) == Live(o) /\ heap'[o].st = "pooled"

\* C12: make_record for the Record type and a pooled size takes the head of
\* the calling thread's free list for that size whenever there is one, and
\* fresh storage only when that list is empty; a block released by a thread is
\* the head of that thread's list, so that the thread's next acquisition of
\* the size finds it.
C12_PoolBeforeFresh ==
    [][\A o \in DOMAIN heap :
          /\ (/\ Acquired(o) /\ heap'[o].type = "Record"
              /\ heap'[o].size < ApgRecord_MAXSAVESIZE) =>
                LET head == fl[g_thread'].freelist[heap'[o].size]
                IN IF head # 0 THEN o = head /\ Pooled(o)
                   ELSE heap[o].st = "free"
          /\ Released(o) =>
                fl'[g_thread'].freelist[heap[o].size] = o]_vars

\* thread 1 has released a record, made one of the same size again and got
\* the same storage back, its list empty again
C12_Witness ==
    /\ g_obs = "reused" /\ g_thread = 1
    /\ \E o \in DOMAIN heap : Live(o) /\ heap[o].size = 2
    /\ fl[1].numfree[2] = 0 /\ fl[1].freelist[2] = 0

\* the references to value v held by the slots of the live blocks of S
RECURSIVE HeldBy(_, _)
HeldBy(S, v) ==
    IF S = {} THEN 0
    ELSE LET o == CHOOSE x \in S : TRUE
         IN (IF Live(o) THEN SlotsHolding(heap[o], v) ELSE 0)
            + HeldBy(S \ {o}, v)

\* the live blocks whose desc is d
DescHolders(d) == {o \in DOMAIN heap : Live(o) /\ heap[o].desc = d}

\* C14: a record taken from a free list carries nothing over.  Releasing a
\* record gives up one reference to its descriptor and one per slot value, so
\* that the references counted are always exactly those of the live records;
\* a block that comes off a free list has all its slots unset and its cached
\* hash unset, and its descriptor is the one whose reference the acquire took.
C14_NoCarryOver ==
    /\ [](/\ \A d \in DescIds : desc_rc[d] = Cardinality(DescHolders(d))
          /\ \A v \in LifeValues : val_rc[v] = HeldBy(DOMAIN heap, v))
    /\ [][\A o \in DOMAIN heap :
            /\ (Live(o) /\ ~Live(o)') =>
                  /\ \A d \in DescIds :
                        desc_rc'[d] = desc_rc[d] - (IF heap[o].desc = d THEN 1 ELSE 0)
                  /\ \A v \in LifeValues :
                        val_rc'[v] = val_rc[v] - SlotsHolding(heap[o], v)
            /\ (Pooled(o) /\ Live(o)') =>
                  /\ \A i \in 1..heap'[o].size : heap'[o].ob_item[i] = NULL
                  /\ Len(heap'[o].ob_item) = heap'[o].size
                  /\ heap'[o].self_hash = -1
                  /\ heap'[o].desc \in descs
                  /\ desc_rc'[heap'[o].desc] = desc_rc[heap'[o].desc] + 1
                  /\ val_rc' = val_rc]_vars

\* a record of two slots came off a free list for a descriptor that no other
\* record uses: its slots are unset and no reference to a value is counted
C14_Witness ==
    /\ g_obs = "reused"
    /\ \E o \in DOMAIN heap :
          /\ Live(o) /\ heap[o].size = 2 /\ heap[o].desc = 2
          /\ heap[o].ob_item = <<NULL, NULL>>
    /\ desc_rc = [d \in DescIds |-> IF d = 2 THEN 1 ELSE 0]
    /\ \A v \in LifeValues : val_rc[v] = 0

\* the blocks on the free lists of thread t
Chain(t) ==
    UNION {WalkFrees(heap, fl[t].freelist[n]) : n \in 0..(ApgRecord_MAXSAVESIZE - 1)}

\* C15: a free list is read and written by its own thread only.  A step
\* changes the free lists of the thread that runs it and of no other; a block
\* released on a thread becomes the head of that thread's list for its size, a
\* block that comes off a list was the head of the list of the thread that
\* acquires it, and no block is on the lists of two threads.
C15_ThreadLocal ==
    /\ [](\A t, u \in Threads : t # u => Chain(t) \cap Chain(u) = {})
    /\ [][\A t \in Threads :
            /\ fl'[t] # fl[t] => g_thread' = t
            /\ g_thread' = t =>
                  \A o \in DOMAIN heap :
                     /\ Released(o) =>
                           /\ fl'[t].freelist[heap[o].size] = o
                           /\ fl'[t].numfree[heap[o].size]
                                 = fl[t].numfree[heap[o].size] + 1
                           /\ \A u \in Threads \ {t} : o \notin Chain(u)'
                     /\ (Pooled(o) /\ Live(o)') =>
                           /\ fl[t].freelist[heap[o].size] = o
                           /\ fl'[t].numfree[heap[o].size]
                                 = fl[t].numfree[heap[o].size] - 1
                           /\ o \notin Chain(t)']_vars

\* each of the two threads has a block on its list for one slot, the one of
\* thread 2 released last
C15_Witness ==
    /\ g_thread = 2
    /\ fl[1].numfree[1] = 1 /\ fl[2].numfree[1] = 1
    /\ fl[1].freelist[1] # fl[2].freelist[1]
    /\ Pooled(fl[1].freelist[1]) /\ Pooled(fl[2].freelist[1])

\* C16: once record_module_clear has run, no thread's free lists retain a
\* block and no thread's record_freelist_state is still allocated.
C16_PoolsTornDown ==
    ~state.freelist_key =>
       /\ \A t \in Threads : ~fl[t].alloc /\ Chain(t) = {}
       /\ \A o \in DOMAIN heap : ~Pooled(o)

\* the blocks met from op on by following the links, at most k of them
RECURSIVE ChainSeq(_, _)
ChainSeq(op, k) ==
    IF op = 0 \/ k = 0 THEN <<>>
    ELSE <<op>> \o ChainSeq(Slot0(heap[op]).v, k - 1)

\* the free list of thread t for size n, head first; a walk longer than the
\* heap has blocks is cut off
FreeList(t, n) == ChainSeq(fl[t].freelist[n], Cardinality(DOMAIN heap) + 1)

PooledSizes == 0..(ApgRecord_MAXSAVESIZE - 1)

\* C19: for every thread and size, numfree is the number of blocks chained on
\* the list; no block is twice on a list or on two lists; every block on the
\* list for size n is a block of n slots of the Record type; and the blocks
\* on the lists are exactly the released ones, none of them a live record.
C19_FreeListsWellFormed ==
    /\ \A t \in Threads, n \in PooledSizes :
          LET c == FreeList(t, n)
          IN /\ Len(c) = fl[t].numfree[n]
             /\ \A j, k \in DOMAIN c : j # k => c[j] # c[k]
             /\ \A j \in DOMAIN c :
                   /\ Pooled(c[j]) /\ ~Live(c[j])
                   /\ heap[c[j]].size = n
                   /\ heap[c[j]].type = "Record"
             /\ \A u \in Threads, m \in PooledSizes :
                   <<t, n>> # <<u, m>> =>
                      \A j \in DOMAIN c, k \in DOMAIN FreeList(u, m) :
                         c[j] # FreeList(u, m)[k]
    /\ \A o \in DOMAIN heap :
          Pooled(o) => \E t \in Threads : o \in Chain(t)

\* C20: the slot that holds the free-list link, ob_item[0], lies inside the
\* block: every block on a free list has at least one slot.
C20_LinkSlotInside ==
    \A o \in DOMAIN heap :
       Pooled(o) => (0 < heap[o].size /\ 1 \in DOMAIN heap[o].ob_item)

-----------------------------------------------------------------------------
(* One thread at the bound of a free list.  The thread has made
   ApgRecord_MAXFREELIST + 1 records of one slot and one record of
   ApgRecord_MAXSAVESIZE slots and has dropped all but two of the former: its
   list for one slot holds ApgRecord_MAXFREELIST - 1 blocks.  From there it
   drops and makes records of these two sizes, holding at most
   MaxHeld at a time. *)

FillBlocks == ApgRecord_MAXFREELIST + 2
MaxHeld == 3

LiveCount == Cardinality({o \in DOMAIN heap : Live(o)})
PooledBlocks == {o \in DOMAIN heap : Pooled(o)}

\* block o as record_dealloc left it on the list, below it block o - 1
FilledBlock(o) ==
    [NoBlock EXCEPT !.st = "pooled", !.size = 1, !.ob_item = <<Ptr(o - 1)>>]

\* block o as make_record returned it
MadeBlock(size) == Constructed(Allocated("Record", size), 1, size)

FillAcquire ==
    /\ LiveCount < MaxHeld
    /\ \E size \in {1, ApgRecord_MAXSAVESIZE} :
          make_record(1, "Record", 1, size, FreeBlocks)
    /\ UNCHANGED <<descs, val_rc, state>>
    /\ UNCHANGED <<hashVars, cmpVars, readVars, iterVars, reprVars>>

FillRelease ==
    /\ \E o \in DOMAIN heap :
          /\ Live(o)
          /\ record_dealloc(o, 1)
    /\ UNCHANGED <<descs, state>>
    /\ UNCHANGED <<hashVars, cmpVars, readVars, iterVars, reprVars>>

FillNext == FillAcquire \/ FillRelease

\* C13: no free list holds more than ApgRecord_MAXFREELIST blocks and none
\* holds a block of ApgRecord_MAXSAVESIZE slots or more; a release puts the
\* block on a list only if its size is pooled and the list is below the
\* bound, and gives the storage back at once otherwise.
C13_FreeListBounded ==
    /\ [](/\ \A t \in Threads : \A s \in 0..(ApgRecord_MAXSAVESIZE - 1) :
                fl[t].numfree[s] <= ApgRecord_MAXFREELIST
          /\ \A s \in {heap[o].size : o \in PooledBlocks} :
                /\ s < ApgRecord_MAXSAVESIZE
                /\ Cardinality({o \in PooledBlocks : heap[o].size = s})
                      <= ApgRecord_MAXFREELIST)
    /\ [][\A o \in DOMAIN heap :
             (Live(o) /\ heap'[o].st # "live") =>
                IF /\ heap[o].size < ApgRecord_MAXSAVESIZE
                   /\ fl[g_thread'].numfree[heap[o].size] < ApgRecord_MAXFREELIST
                THEN heap'[o].st = "pooled"
                ELSE heap'[o].st = "free"]_vars

\* the list for one slot is full, and the records dropped after that, one of
\* one slot and one of ApgRecord_MAXSAVESIZE slots, were given back
C13_Witness ==
    /\ fl[1].numfree[1] = ApgRecord_MAXFREELIST
    /\ LiveCount = 0
    /\ Cardinality(FreeBlocks) = 2
    /\ g_thread = 1

-----------------------------------------------------------------------------
(* record_repr.  A record's slots hold an int, an object whose repr raises,
   or a record, possibly itself.  The text is kept as the sequence of the
   pieces written to the PyUnicodeWriter. *)

ReprRecs == {1, 2}
ReprSizes == {0, 1, 2}
ReprTypeNames == {<<"asyncpg", "Record">>, <<"app", "models", "Row">>, <<"Row">>}

BadRepr == [t |-> "bad", v |-> 0]
RecRef(j) == [t |-> "rec", v |-> j]
ReprItems == {PyInt(1), BadRepr} \cup {RecRef(j) : j \in ReprRecs}

\* the tuple of the first k key names
ReprKeys(k) == SubSeq(<<"a", "b">>, 1, k)

\* tp_name is the dotted path; get_typename is what follows the last dot
get_typename(tp_name) == tp_name[Len(tp_name)]

ReprEmpty(v) == <<"<", get_typename(p_recs[v].type), ">">>
ReprElided(v) == <<"<", get_typename(p_recs[v].type), " ...>">>
ReprFailed == [err |-> TRUE, val |-> <<>>]
ReprValue(x) == [err |-> FALSE, val |-> x]

\* Py_ReprEnter(v): 1 if v is registered already, -1 if registering fails,
\* else 0 with v registered; Py_ReprLeave(v) removes v
Py_ReprEnter(active, v, nomem) ==
    IF v \in active THEN 1 ELSE IF nomem THEN -1 ELSE 0
Py_ReprLeave_Keep(active, v) == active
Py_ReprLeave(active, v) == active \ {v}

\* record_repr(v) up to the creation of the writer: what it returns without
\* rendering, or "enter" when it goes on to the loop
ReprEntry(v, nomem) ==
    IF p_recs[v].size = 0 THEN [go |-> "return", ret |-> ReprValue(ReprEmpty(v))]
    ELSE LET i == Py_ReprEnter(p_active, v, nomem)
         IN IF i > 0 THEN [go |-> "return", ret |-> ReprValue(ReprElided(v))]
            ELSE IF i < 0 THEN [go |-> "return", ret |-> ReprFailed]
            ELSE [go |-> "enter", ret |-> ReprFailed]

\* the activation of record_repr(v) at the top of its loop
ReprFrame(v) ==
    [v |-> v, i |-> 0, writer |-> <<"<", get_typename(p_recs[v].type), " ">>]

\* the error label run by every activation on the stack, innermost first:
\* the registrations that are left
RECURSIVE ReprUnwind(_, _)
ReprUnwind(stack, active) ==
    IF stack = <<>> THEN active
    ELSE ReprUnwind(SubSeq(stack, 1, Len(stack) - 1),
                    Py_ReprLeave(active, stack[Len(stack)].v))

ReprTop == p_stack[Len(p_stack)]

\* repr(v) called from outside
ReprCall ==
    /\ p_stack = <<>>
    /\ \E v \in ReprRecs, nomem \in BOOLEAN :
          LET e == ReprEntry(v, nomem)
          IN IF e.go = "enter"
             THEN /\ p_stack' = <<ReprFrame(v)>>
                  /\ p_active' = p_active \cup {v}
                  /\ p_ret' = NoRepr
             ELSE /\ p_ret' = e.ret
                  /\ UNCHANGED <<p_stack, p_active>>
    /\ UNCHANGED p_recs
    /\ UNCHANGED <<hashVars, cmpVars, readVars, iterVars, lifeVars>>

\* one round of the loop of the innermost activation: separator, key, '=',
\* Py_EnterRecursiveCall, the repr of the item.  deep: the interpreter's
\* recursion limit is reached.  A failure takes every activation through its
\* error label.
ReprItem ==
    /\ p_stack # <<>>
    /\ ReprTop.i < p_recs[ReprTop.v].size
    /\ \E deep \in BOOLEAN, nomem \in BOOLEAN :
          LET f == ReprTop
              r == p_recs[f.v]
              i == f.i + 1
              item == r.item[i]
              w == (IF i > 1 THEN f.writer \o <<" ">> ELSE f.writer)
                      \o (IF i <= Len(r.keys) THEN <<r.keys[i], "=">> ELSE <<>>)
              e == IF item.t = "rec" THEN ReprEntry(item.v, nomem)
                   ELSE IF item.t = "bad" THEN [go |-> "return", ret |-> ReprFailed]
                   ELSE [go |-> "return", ret |-> ReprValue(<<"1">>)]
              below == SubSeq(p_stack, 1, Len(p_stack) - 1)
          IN IF i > Len(r.keys) \/ deep \/ (e.go = "return" /\ e.ret.err)
             THEN /\ p_stack' = <<>>
                  /\ p_active' = ReprUnwind(p_stack, p_active)
                  /\ p_ret' = ReprFailed
             ELSE IF e.go = "return"
             THEN /\ p_stack' = Append(below, [f EXCEPT !.i = i,
                                                        !.writer = w \o e.ret.val])
                  /\ UNCHANGED <<p_active, p_ret>>
             ELSE /\ p_stack' = Append(Append(below, [f EXCEPT !.writer = w]),
                                       ReprFrame(item.v))
                  /\ p_active' = p_active \cup {item.v}
                  /\ UNCHANGED p_ret
    /\ UNCHANGED p_recs
    /\ UNCHANGED <<hashVars, cmpVars, readVars, iterVars, lifeVars>>

\* the innermost activation past its loop: '>', Py_ReprLeave, the text
\* returned to its caller
ReprReturn ==
    /\ p_stack # <<>>
    /\ ReprTop.i = p_recs[ReprTop.v].size
    /\ LET f == ReprTop
           text == f.writer \o <<">">>
           below == SubSeq(p_stack, 1, Len(p_stack) - 1)
       IN /\ p_active' = Py_ReprLeave(p_active, f.v)
          /\ IF below = <<>>
             THEN /\ p_stack' = <<>>
                  /\ p_ret' = ReprValue(text)
             ELSE LET g == below[Len(below)]
                  IN /\ p_stack' = [below EXCEPT ![Len(below)] =
                                      [g EXCEPT !.i = g.i + 1,
                                                !.writer = g.writer \o text]]
                     /\ UNCHANGED p_ret
    /\ UNCHANGED p_recs
    /\ UNCHANGED <<hashVars, cmpVars, readVars, iterVars, lifeVars>>

ReprNext == ReprCall \/ ReprItem \/ ReprReturn

\* the objects being rendered by the activations on the stack
Rendering == {p_stack[k].v : k \in DOMAIN p_stack}

\* C17: repr of a record that contains itself does not recurse without
\* bound.  No record is rendered by two activations at a time, so the nesting
\* is at most the number of records; a nested call on a record that is being
\* rendered returns "<TypeName ...>" at once; and a record is registered
\* exactly while an activation renders it, so that every exit, by return or
\* by error, leaves it unregistered.
C17_ReprGuard ==
    /\ [](/\ \A j, k \in DOMAIN p_stack : j # k => p_stack[j].v # p_stack[k].v
          /\ Len(p_stack) <= Cardinality(ReprRecs)
          /\ p_active = Rendering
          /\ p_stack = <<>> => p_active = {})
    /\ [][(/\ p_stack # <<>> /\ p_stack' # <<>>
           /\ ReprTop.i < p_recs[ReprTop.v].size
           /\ p_recs[ReprTop.v].item[ReprTop.i + 1].t = "rec"
           /\ p_recs[ReprTop.v].item[ReprTop.i + 1].v \in Rendering)
          => LET w == ReprTop'.writer
                 n == Len(w)
             IN /\ Len(p_stack') = Len(p_stack)
                /\ ReprTop'.i = ReprTop.i + 1
                /\ SubSeq(w, n - 2, n)
                      = ReprElided(p_recs[ReprTop.v].item[ReprTop.i + 1].v)
                /\ p_active' = p_active]_vars

\* a record whose second slot holds the record itself has been rendered, the
\* nested call elided, and is registered no more
C17_Witness ==
    /\ p_stack = <<>> /\ p_active = {}
    /\ p_ret = ReprValue(<<"<", "Record", " ", "a", "=", "1", " ", "b", "=",
                           "<", "Record", " ...>", ">">>)

-----------------------------------------------------------------------------
(* Specifications: one per operation under study; the variables of the
   other operations keep an idle value. *)

IdleObject == [type |-> "Record", item |-> <<>>]
IdleCall == [op |-> "idle", args |-> <<>>, kw |-> 0]

\* record_hash is entered with acc = PRIME_5 and i = 0
InitHash ==
    /\ p_recs = <<>> /\ p_stack = <<>> /\ p_active = {} /\ p_ret = NoRepr
    /\ wide \in BOOLEAN
    /\ h_item \in SeqsUpTo(HashValues, MaxHashLen)
    /\ h_pc = "loop"
    /\ h_i = 0
    /\ h_acc = HASH_XXPRIME_5(wide)
    /\ h_ret = HashError
    /\ h_self_hash = WOnes(WordLimbs(wide))
    /\ c_v = IdleObject /\ c_w = IdleObject /\ c_op = "Py_EQ"
    /\ c_pc = "idle" /\ c_i = 0 /\ c_ret = "none"
    /\ r_item = <<>> /\ r_keys = <<>> /\ r_mapping = <<>>
    /\ r_call = IdleCall /\ r_ret = NoResult
    /\ i_item = <<>> /\ i_keys = <<>> /\ i_held = FALSE /\ i_refcnt = 0
    /\ vi = NoValueIter /\ vi_out = <<>> /\ vi_stops = 0
    /\ ii = NoItemsIter /\ ii_out = <<>> /\ ii_stops = 0
    /\ heap = <<>> /\ fl = <<>> /\ descs = {} /\ desc_rc = <<>>
    /\ val_rc = <<>> /\ state = ExecState /\ g_obs = NoObservation
    /\ g_thread = NoThread

SpecHash == InitHash /\ [][HashNext]_vars

\* tp_richcompare is entered with v an instance of Record or of a subclass
InitCmp ==
    /\ p_recs = <<>> /\ p_stack = <<>> /\ p_active = {} /\ p_ret = NoRepr
    /\ c_v \in [type : {"Record", "RecordSubclass"}, item : CmpItems]
    /\ c_w \in [type : {"Record", "RecordSubclass", "tuple"}, item : CmpItems]
                  \cup {[type |-> "dict", item |-> <<>>]}
    /\ c_op \in Ops
    /\ c_pc = "entry"
    /\ c_i = 0
    /\ c_ret = "none"
    /\ wide = TRUE /\ h_item = <<>> /\ h_pc = "idle" /\ h_i = 0
    /\ h_acc = <<>> /\ h_ret = HashError
    /\ h_self_hash = WOnes(WordLimbs(wide))
    /\ r_item = <<>> /\ r_keys = <<>> /\ r_mapping = <<>>
    /\ r_call = IdleCall /\ r_ret = NoResult
    /\ i_item = <<>> /\ i_keys = <<>> /\ i_held = FALSE /\ i_refcnt = 0
    /\ vi = NoValueIter /\ vi_out = <<>> /\ vi_stops = 0
    /\ ii = NoItemsIter /\ ii_out = <<>> /\ ii_stops = 0
    /\ heap = <<>> /\ fl = <<>> /\ descs = {} /\ desc_rc = <<>>
    /\ val_rc = <<>> /\ state = ExecState /\ g_obs = NoObservation
    /\ g_thread = NoThread

SpecCmp == InitCmp /\ [][CmpNext]_vars

\* a populated record of any size beside a descriptor of any shape
InitRead ==
    /\ p_recs = <<>> /\ p_stack = <<>> /\ p_active = {} /\ p_ret = NoRepr
    /\ r_item \in SeqsUpTo(ReadValues, MaxReadSize)
    /\ r_keys \in SeqsUpTo(Names, MaxReadKeys)
    /\ r_mapping \in Mappings
    /\ r_call = [op |-> "none", args |-> <<>>, kw |-> 0]
    /\ r_ret = NoResult
    /\ wide = TRUE /\ h_item = <<>> /\ h_pc = "idle" /\ h_i = 0
    /\ h_acc = <<>> /\ h_ret = HashError
    /\ h_self_hash = WOnes(WordLimbs(wide))
    /\ c_v = IdleObject /\ c_w = IdleObject /\ c_op = "Py_EQ"
    /\ c_pc = "idle" /\ c_i = 0 /\ c_ret = "none"
    /\ i_item = <<>> /\ i_keys = <<>> /\ i_held = FALSE /\ i_refcnt = 0
    /\ vi = NoValueIter /\ vi_out = <<>> /\ vi_stops = 0
    /\ ii = NoItemsIter /\ ii_out = <<>> /\ ii_stops = 0
    /\ heap = <<>> /\ fl = <<>> /\ descs = {} /\ desc_rc = <<>>
    /\ val_rc = <<>> /\ state = ExecState /\ g_obs = NoObservation
    /\ g_thread = NoThread

SpecRead == InitRead /\ [][ReadNext]_vars

\* a populated record, held by the caller alone, beside keys of any length
InitIter ==
    /\ p_recs = <<>> /\ p_stack = <<>> /\ p_active = {} /\ p_ret = NoRepr
    /\ i_item \in SeqsUpTo(IterValues, MaxIterSize)
    /\ i_keys \in SeqsUpTo(Names, MaxIterKeys)
    /\ i_held = TRUE
    /\ i_refcnt = 1
    /\ vi = NoValueIter /\ vi_out = <<>> /\ vi_stops = 0
    /\ ii = NoItemsIter /\ ii_out = <<>> /\ ii_stops = 0
    /\ heap = <<>> /\ fl = <<>> /\ descs = {} /\ desc_rc = <<>>
    /\ val_rc = <<>> /\ state = ExecState /\ g_obs = NoObservation
    /\ g_thread = NoThread
    /\ wide = TRUE /\ h_item = <<>> /\ h_pc = "idle" /\ h_i = 0
    /\ h_acc = <<>> /\ h_ret = HashError
    /\ h_self_hash = WOnes(WordLimbs(wide))
    /\ c_v = IdleObject /\ c_w = IdleObject /\ c_op = "Py_EQ"
    /\ c_pc = "idle" /\ c_i = 0 /\ c_ret = "none"
    /\ r_item = <<>> /\ r_keys = <<>> /\ r_mapping = <<>>
    /\ r_call = IdleCall /\ r_ret = NoResult

SpecIter == InitIter /\ [][IterNext]_vars

\* some records, their slots filled, no repr() running
InitRepr ==
    /\ p_recs \in [ReprRecs -> {r \in [type : ReprTypeNames, size : ReprSizes,
                                       keys : {ReprKeys(k) : k \in ReprSizes},
                                       item : UNION {[1..n -> ReprItems] : n \in ReprSizes}] :
                                  Len(r.item) = r.size}]
    /\ p_stack = <<>> /\ p_active = {} /\ p_ret = NoRepr
    /\ heap = <<>> /\ fl = <<>> /\ descs = {} /\ desc_rc = <<>>
    /\ val_rc = <<>> /\ state = ExecState /\ g_obs = NoObservation
    /\ g_thread = NoThread
    /\ wide = TRUE /\ h_item = <<>> /\ h_pc = "idle" /\ h_i = 0
    /\ h_acc = <<>> /\ h_ret = HashError
    /\ h_self_hash = WOnes(WordLimbs(wide))
    /\ c_v = IdleObject /\ c_w = IdleObject /\ c_op = "Py_EQ"
    /\ c_pc = "idle" /\ c_i = 0 /\ c_ret = "none"
    /\ r_item = <<>> /\ r_keys = <<>> /\ r_mapping = <<>>
    /\ r_call = IdleCall /\ r_ret = NoResult
    /\ i_item = <<>> /\ i_keys = <<>> /\ i_held = FALSE /\ i_refcnt = 0
    /\ vi = NoValueIter /\ vi_out = <<>> /\ vi_stops = 0
    /\ ii = NoItemsIter /\ ii_out = <<>> /\ ii_stops = 0

SpecRepr == InitRepr /\ [][ReprNext]_vars

\* the module imported: no record, no descriptor, no thread has a free list
Init ==
    /\ p_recs = <<>> /\ p_stack = <<>> /\ p_active = {} /\ p_ret = NoRepr
    /\ heap = [o \in Blocks |-> NoBlock]
    /\ fl = [t \in Threads |-> NoFreelist]
    /\ descs = {}
    /\ desc_rc = [d \in DescIds |-> 0]
    /\ val_rc = [v \in LifeValues |-> 0]
    /\ state = ExecState
    /\ g_obs = NoObservation
    /\ g_thread = NoThread
    /\ wide = TRUE /\ h_item = <<>> /\ h_pc = "idle" /\ h_i = 0
    /\ h_acc = <<>> /\ h_ret = HashError
    /\ h_self_hash = WOnes(WordLimbs(wide))
    /\ c_v = IdleObject /\ c_w = IdleObject /\ c_op = "Py_EQ"
    /\ c_pc = "idle" /\ c_i = 0 /\ c_ret = "none"
    /\ r_item = <<>> /\ r_keys = <<>> /\ r_mapping = <<>>
    /\ r_call = IdleCall /\ r_ret = NoResult
    /\ i_item = <<>> /\ i_keys = <<>> /\ i_held = FALSE /\ i_refcnt = 0
    /\ vi = NoValueIter /\ vi_out = <<>> /\ vi_stops = 0
    /\ ii = NoItemsIter /\ ii_out = <<>> /\ ii_stops = 0

\* the list of thread 1 for one slot one short of its bound, three records held
InitFill ==
    /\ p_recs = <<>> /\ p_stack = <<>> /\ p_active = {} /\ p_ret = NoRepr
    /\ heap = [o \in 1..FillBlocks |->
                  IF o < ApgRecord_MAXFREELIST THEN FilledBlock(o)
                  ELSE IF o = FillBlocks THEN MadeBlock(ApgRecord_MAXSAVESIZE)
                  ELSE MadeBlock(1)]
    /\ fl = [t \in Threads |->
                IF t = 1
                THEN [get_freelist_state(NoFreelist) EXCEPT
                         !.freelist[1] = ApgRecord_MAXFREELIST - 1,
                         !.numfree[1] = ApgRecord_MAXFREELIST - 1]
                ELSE NoFreelist]
    /\ descs = {1}
    /\ desc_rc = [d \in DescIds |-> IF d = 1 THEN 3 ELSE 0]
    /\ val_rc = [v \in LifeValues |-> 0]
    /\ state = ExecState
    /\ g_obs = "ok"
    /\ g_thread = NoThread
    /\ wide = TRUE /\ h_item = <<>> /\ h_pc = "idle" /\ h_i = 0
    /\ h_acc = <<>> /\ h_ret = HashError
    /\ h_self_hash = WOnes(WordLimbs(wide))
    /\ c_v = IdleObject /\ c_w = IdleObject /\ c_op = "Py_EQ"
    /\ c_pc = "idle" /\ c_i = 0 /\ c_ret = "none"
    /\ r_item = <<>> /\ r_keys = <<>> /\ r_mapping = <<>>
    /\ r_call = IdleCall /\ r_ret = NoResult
    /\ i_item = <<>> /\ i_keys = <<>> /\ i_held = FALSE /\ i_refcnt = 0
    /\ vi = NoValueIter /\ vi_out = <<>> /\ vi_stops = 0
    /\ ii = NoItemsIter /\ ii_out = <<>> /\ ii_stops = 0

SpecFill == InitFill /\ [][FillNext]_vars

Next ==
    \/ RecordDescNew \/ MakeRecord \/ RecordNew \/ SetItem
    \/ GcTraverse \/ ReadItem \/ Dealloc \/ ModuleClear

Spec == Init /\ [][Next]_vars

====
